---- MODULE Spec2Model ----
(***************************************************************************)
(* Model of Chapter/page4.py: a threaded crawler.  main() truncates the    *)
(* CSV file and writes the header, fills a Queue with page URLs, starts    *)
(* THREADS worker threads, waits on queue.join() and then joins every      *)
(* thread.  Each worker loops: queue.empty() / queue.get() / fetch_page /  *)
(* queue.task_done() / time.sleep(1).  fetch_page calls parse_page on a    *)
(* 200 response inside a catch-all try; parse_page de-duplicates on the    *)
(* stripped quote text against the global set seen_quotes and appends the  *)
(* accepted rows to the CSV file under the global lock.                    *)
(*                                                                         *)
(* Every shared-memory access of a thread is one step of the model; the    *)
(* network response of a page and the success of a file write are inputs   *)
(* chosen when the call is made.                                           *)
(***************************************************************************)
EXTENDS Integers, Sequences, FiniteSets, TLC

\* ---- bounds of the model ------------------------------------------------
MaxPages == 2
MaxThreads == 2
MaxQuotes == 2
NumKeys == 2
\* quotes over all responses of a run
MaxRecords == 3
\* numPages * threads of an explored run
MaxWork == 4

VARIABLES
    numPages,     \* NUM_PAGES of this run
    threads,      \* THREADS of this run
    mainpc,       \* position of main()
    mi,           \* loop index of main()'s current for loop
    queue,        \* the Queue's items, FIFO
    unfinished,   \* Queue.unfinished_tasks
    seen_quotes,  \* the global set of stripped quote texts
    sink,         \* rows of quotes.csv
    lock,         \* holder of the global Lock, 0 when free
    pc,           \* position of each worker thread
    url,          \* worker-local: page taken from the queue
    html,         \* worker-local: quotes of the response body
    qi,           \* worker-local: index of the for loop over quotes
    text,         \* worker-local: stripped text of the current quote
    data_list,    \* worker-local: rows accepted on this page
    response,     \* per page: what requests.get returned
    result,       \* per page: how fetch_page ended
    deq,          \* per page: number of queue.get() calls that returned it
    marked,       \* per page: number of queue.task_done() calls for it
    printed       \* number of completion messages printed

vars == <<numPages, threads, mainpc, mi, queue, unfinished, seen_quotes, sink,
          lock, pc, url, html, qi, text, data_list, response, result, deq,
          marked, printed>>

Pages == 1..MaxPages
Workers == 1..MaxThreads

\* ---- page content -------------------------------------------------------
\* A text is a sequence of characters: 0 is a blank, k > 0 a letter.
Blanks(n) == [i \in 1..n |-> 0]

\* The span.text of quote i of page p when its text is k: the pages pad
\* their quotes differently, so equal texts differ before stripping.
RawText(k, p, i) == Blanks(i - 1) \o <<k>> \o Blanks(p - 1)

\* A div.quote whose span.text or small.author is missing.
Gap == <<>>

\* The div.quote elements of a body of page p, up to the first malformed
\* one (parse_page never reads past it).
Bodies(p) ==
    LET Shapes == UNION {{c \in [1..n -> 0..NumKeys] :
                             \A i \in 1..(n - 1) : c[i] # 0} : n \in 0..MaxQuotes}
    IN {[i \in DOMAIN c |-> IF c[i] = 0 THEN Gap ELSE RawText(c[i], p, i)] :
           c \in Shapes}

RECURSIVE LStrip(_)
LStrip(s) == IF s # <<>> /\ Head(s) = 0 THEN LStrip(Tail(s)) ELSE s

RECURSIVE RStrip(_)
RStrip(s) == IF s # <<>> /\ s[Len(s)] = 0 THEN RStrip(SubSeq(s, 1, Len(s) - 1)) ELSE s

\* get_text(strip=True)
Strip(s) == RStrip(LStrip(s))

Header == <<"Quote", "Author", "Tags">>

\* The row built from quote i of page p: the stripped text, and the author
\* and tags of that quote, which are identified by where the quote stands.
Row(t, p, i) == <<t, p, i>>

\* What requests.get returned for a page: <<status, quotes of the body>>;
\* status 0 before the call returns, -1 when it raised.
NoResponse == <<0, <<>>>>
TransportError == <<-1, <<>>>>

\* ---- main() -------------------------------------------------------------
StaleFiles == {<<>>, <<Row(<<1>>, 1, 1)>>}

RECURSIVE RecordsUpTo(_)
RecordsUpTo(p) == IF p = 0 THEN 0 ELSE Len(response[p][2]) + RecordsUpTo(p - 1)


Init ==
    /\ numPages \in 0..MaxPages
    /\ threads \in 1..MaxThreads
    /\ numPages * threads <= MaxWork
    /\ mainpc = "header"
    /\ mi = 1
    /\ queue = <<>>
    /\ unfinished = 0
    /\ seen_quotes = {}
    /\ sink \in StaleFiles
    /\ lock = 0
    /\ pc = [w \in Workers |-> "unstarted"]
    /\ url = [w \in Workers |-> 0]
    /\ html = [w \in Workers |-> <<>>]
    /\ qi = [w \in Workers |-> 0]
    /\ text = [w \in Workers |-> <<>>]
    /\ data_list = [w \in Workers |-> <<>>]
    /\ response = [p \in Pages |-> NoResponse]
    /\ result = [p \in Pages |-> "pending"]
    /\ deq = [p \in Pages |-> 0]
    /\ marked = [p \in Pages |-> 0]
    /\ printed = 0

workerVars == <<pc, url, html, qi, text, data_list>>
pageVars == <<response, result, deq, marked>>

NotTruncated(f) == f

\* open(output_file, "w") empties the file.
Truncated(f) == <<>>

WriteHeader ==
    /\ mainpc = "header"
    /\ sink' = Append(Truncated(sink), Header)
    /\ mainpc' = "enqueue"
    /\ mi' = 1
    /\ UNCHANGED <<numPages, threads, queue, unfinished, seen_quotes, lock,
                   workerVars, pageVars, printed>>

Enqueue ==
    /\ mainpc = "enqueue"
    /\ IF mi <= numPages
       THEN /\ queue' = Append(queue, mi)
            /\ unfinished' = unfinished + 1
            /\ mi' = mi + 1
            /\ UNCHANGED mainpc
       ELSE /\ mainpc' = "start"
            /\ mi' = 1
            /\ UNCHANGED <<queue, unfinished>>
    /\ UNCHANGED <<numPages, threads, seen_quotes, sink, lock, workerVars,
                   pageVars, printed>>

StartThread ==
    /\ mainpc = "start"
    /\ IF mi <= threads
       THEN /\ pc' = [pc EXCEPT ![mi] = "loop"]
            /\ mi' = mi + 1
            /\ UNCHANGED mainpc
       ELSE /\ mainpc' = "qjoin"
            /\ UNCHANGED <<pc, mi>>
    /\ UNCHANGED <<numPages, threads, queue, unfinished, seen_quotes, sink,
                   lock, url, html, qi, text, data_list, pageVars, printed>>

\* queue.join() returns when unfinished_tasks is zero.
DrainedEarly(n) == n <= 1

Drained(n) == n = 0

QueueJoin ==
    /\ mainpc = "qjoin"
    /\ Drained(unfinished)
    /\ mainpc' = "tjoin"
    /\ mi' = 1
    /\ UNCHANGED <<numPages, threads, queue, unfinished, seen_quotes, sink,
                   lock, workerVars, pageVars, printed>>

ThreadJoin ==
    /\ mainpc = "tjoin"
    /\ IF mi <= threads
       THEN /\ pc[mi] = "terminated"
            /\ mi' = mi + 1
            /\ UNCHANGED mainpc
       ELSE /\ mainpc' = "print"
            /\ UNCHANGED mi
    /\ UNCHANGED <<numPages, threads, queue, unfinished, seen_quotes, sink,
                   lock, workerVars, pageVars, printed>>

PrintDone ==
    /\ mainpc = "print"
    /\ printed' = printed + 1
    /\ mainpc' = "done"
    /\ UNCHANGED <<numPages, threads, mi, queue, unfinished, seen_quotes,
                   sink, lock, workerVars, pageVars>>

\* ---- worker() -----------------------------------------------------------
QueueNeverEmpty(q) == FALSE

QueueEmpty(q) == q = <<>>

CheckEmpty(w) ==
    /\ pc[w] = "loop"
    /\ pc' = [pc EXCEPT ![w] = IF QueueEmpty(queue) THEN "terminated" ELSE "get"]
    /\ UNCHANGED <<numPages, threads, mainpc, mi, queue, unfinished,
                   seen_quotes, sink, lock, url, html, qi, text, data_list,
                   pageVars, printed>>

\* queue.get() blocks while the queue is empty.
QueueRestKeep(q) == q

QueueRest(q) == Tail(q)

Get(w) ==
    /\ pc[w] = "get"
    /\ queue # <<>>
    /\ url' = [url EXCEPT ![w] = Head(queue)]
    /\ queue' = QueueRest(queue)
    /\ deq' = [deq EXCEPT ![Head(queue)] = @ + 1]
    /\ pc' = [pc EXCEPT ![w] = "fetch"]
    /\ UNCHANGED <<numPages, threads, mainpc, mi, unfinished, seen_quotes,
                   sink, lock, html, qi, text, data_list, response, result,
                   marked, printed>>

\* ---- fetch_page() / parse_page() ---------------------------------------
Statuses == {200, 404}

StatusAlwaysOK(st) == TRUE

\* response.status_code == 200
StatusOK(st) == st = 200

ExceptionEscapes == "terminated"

\* Where the worker stands after an exception raised under fetch_page's try:
\* the except clause prints and fetch_page returns to line 157.
AfterException == "task_done"

Fetch(w) ==
    /\ pc[w] = "fetch"
    /\ \/ \* requests.get raises
          /\ response' = [response EXCEPT ![url[w]] = TransportError]
          /\ result' = [result EXCEPT ![url[w]] = "transport"]
          /\ pc' = [pc EXCEPT ![w] = AfterException]
          /\ UNCHANGED <<html, qi, data_list>>
       \/ \E st \in Statuses, b \in Bodies(url[w]) :
          /\ Len(b) + RecordsUpTo(MaxPages) <= MaxRecords
          /\ response' = [response EXCEPT ![url[w]] =
                              IF st = 200 THEN <<st, b>> ELSE <<st, <<>>>>]
          /\ IF StatusOK(st)
             THEN /\ html' = [html EXCEPT ![w] = b]
                  /\ qi' = [qi EXCEPT ![w] = 1]
                  /\ data_list' = [data_list EXCEPT ![w] = <<>>]
                  /\ pc' = [pc EXCEPT ![w] = "extract"]
                  /\ UNCHANGED result
             ELSE /\ b = <<>>  \* the body of a failed request is never read
                  /\ result' = [result EXCEPT ![url[w]] = "non200"]
                  /\ pc' = [pc EXCEPT ![w] = "task_done"]
                  /\ UNCHANGED <<html, qi, data_list>>
    /\ UNCHANGED <<numPages, threads, mainpc, mi, queue, unfinished,
                   seen_quotes, sink, lock, url, text, deq, marked, printed>>

\* One iteration of the for loop up to the membership test of line 114, or
\* the end of the loop.
Extract(w) ==
    /\ pc[w] = "extract"
    /\ IF qi[w] > Len(html[w])
       THEN /\ pc' = [pc EXCEPT ![w] = "acquire"]
            /\ UNCHANGED <<html, qi, text, data_list, result>>
       ELSE IF html[w][qi[w]] = Gap
       THEN \* select_one returned None: AttributeError, caught in fetch_page
            /\ result' = [result EXCEPT ![url[w]] = "extract_err"]
            /\ pc' = [pc EXCEPT ![w] = AfterException]
            /\ html' = [html EXCEPT ![w] = <<>>]
            /\ qi' = [qi EXCEPT ![w] = 0]
            /\ text' = [text EXCEPT ![w] = <<>>]
            /\ data_list' = [data_list EXCEPT ![w] = <<>>]
       ELSE LET t == Strip(html[w][qi[w]]) IN
            /\ text' = [text EXCEPT ![w] = t]
            /\ IF t \notin seen_quotes
               THEN /\ pc' = [pc EXCEPT ![w] = "add"]
                    /\ UNCHANGED qi
               ELSE /\ qi' = [qi EXCEPT ![w] = @ + 1]
                    /\ UNCHANGED pc
            /\ UNCHANGED <<html, data_list, result>>
    /\ UNCHANGED <<numPages, threads, mainpc, mi, queue, unfinished,
                   seen_quotes, sink, lock, url, response, deq, marked,
                   printed>>

\* Lines 116-123.
Add(w) ==
    /\ pc[w] = "add"
    /\ seen_quotes' = seen_quotes \cup {text[w]}
    /\ data_list' = [data_list EXCEPT ![w] = Append(@, Row(text[w], url[w], qi[w]))]
    /\ qi' = [qi EXCEPT ![w] = @ + 1]
    /\ pc' = [pc EXCEPT ![w] = "extract"]
    /\ UNCHANGED <<numPages, threads, mainpc, mi, queue, unfinished, sink,
                   lock, url, html, text, pageVars, printed>>

LockIgnored(l) == TRUE

\* lock.acquire() returns only when nobody holds the lock.
LockFree(l) == l = 0

Acquire(w) ==
    /\ pc[w] = "acquire"
    /\ LockFree(lock)
    /\ lock' = w
    /\ pc' = [pc EXCEPT ![w] = "write"]
    /\ UNCHANGED <<numPages, threads, mainpc, mi, queue, unfinished,
                   seen_quotes, sink, url, html, qi, text, data_list,
                   pageVars, printed>>

\* open + writerows + leaving both with blocks.  An IOError leaves a prefix
\* of the rows in the file and is caught in fetch_page.
LockLeakedOnError(w, raised) == IF raised THEN w ELSE 0

\* The lock when `with lock:` is left by worker w, normally or by an
\* exception: __exit__ releases it either way.
LockOnExit(w, raised) == 0

Write(w) ==
    /\ pc[w] = "write"
    /\ \/ /\ sink' = sink \o data_list[w]
          /\ result' = [result EXCEPT ![url[w]] = "ok"]
          /\ lock' = LockOnExit(w, FALSE)
          /\ pc' = [pc EXCEPT ![w] = "task_done"]
       \/ \E k \in 0..Len(data_list[w]) :
          /\ sink' = sink \o SubSeq(data_list[w], 1, k)
          /\ result' = [result EXCEPT ![url[w]] = "write_err"]
          /\ lock' = LockOnExit(w, TRUE)
          /\ pc' = [pc EXCEPT ![w] = AfterException]
    /\ html' = [html EXCEPT ![w] = <<>>]
    /\ qi' = [qi EXCEPT ![w] = 0]
    /\ text' = [text EXCEPT ![w] = <<>>]
    /\ data_list' = [data_list EXCEPT ![w] = <<>>]
    /\ UNCHANGED <<numPages, threads, mainpc, mi, queue, unfinished,
                   seen_quotes, url, response, deq, marked, printed>>

TaskDone(w) ==
    /\ pc[w] = "task_done"
    /\ unfinished' = unfinished - 1
    /\ marked' = [marked EXCEPT ![url[w]] = @ + 1]
    /\ pc' = [pc EXCEPT ![w] = "sleep"]
    /\ UNCHANGED <<numPages, threads, mainpc, mi, queue, seen_quotes, sink,
                   lock, url, html, qi, text, data_list, response, result,
                   deq, printed>>

Sleep(w) ==
    /\ pc[w] = "sleep"
    /\ pc' = [pc EXCEPT ![w] = "loop"]
    /\ UNCHANGED <<numPages, threads, mainpc, mi, queue, unfinished,
                   seen_quotes, sink, lock, url, html, qi, text, data_list,
                   pageVars, printed>>

MainStep ==
    \/ WriteHeader
    \/ Enqueue
    \/ StartThread
    \/ QueueJoin
    \/ ThreadJoin
    \/ PrintDone

WorkerStep(w) ==
    \/ CheckEmpty(w)
    \/ Get(w)
    \/ Fetch(w)
    \/ Extract(w)
    \/ Add(w)
    \/ Acquire(w)
    \/ Write(w)
    \/ TaskDone(w)
    \/ Sleep(w)

Next ==
    \/ MainStep
    \/ \E w \in Workers : WorkerStep(w)

Spec == Init /\ [][Next]_vars

\* The runs with more workers than pages.
FairInit == Init /\ numPages < threads

\* Threads are scheduled fairly and a free lock is eventually granted.
Fairness ==
    /\ WF_vars(MainStep)
    /\ \A w \in Workers : WF_vars(WorkerStep(w)) /\ SF_vars(Acquire(w))

FairSpec == FairInit /\ [][Next]_vars /\ Fairness

\* ---- vocabulary of the properties ---------------------------------------
Configured == 1..numPages
Started == 1..threads

\* The rows after the header.
DataRows == IF mainpc = "header" THEN <<>> ELSE Tail(sink)

RowKeys == {DataRows[i][1] : i \in 1..Len(DataRows)}

RowsOfPage(p) == {i \in 1..Len(DataRows) : DataRows[i][2] = p}

PassedDrain == mainpc \in {"tjoin", "print", "done"}

InFetchPage(w) == pc[w] \in {"fetch", "extract", "add", "acquire", "write"}

InDedupWrite(w) == pc[w] \in {"extract", "add", "acquire", "write"}

\* Stripped texts of the quotes of page p's body.
PageKeys(p) ==
    LET b == response[p][2]
    IN {Strip(b[i]) : i \in {j \in 1..Len(b) : b[j] # Gap}}

AllOk == \A p \in Configured : result[p] = "ok"

\* ---- C1 -----------------------------------------------------------------
\* C1: the Sink never contains two rows with the same key, whichever
\* pages and workers the two Records came from.
C1_NoDuplicateKeyInSink ==
    \A i, j \in 1..Len(DataRows) :
        i # j => DataRows[i][1] # DataRows[j][1]

\* ---- C2 -----------------------------------------------------------------
\* C2: under fair scheduling every run eventually reports completion: all
\* workers have terminated and the completion message was printed once.
C2_EventuallyCompletes ==
    <>(/\ mainpc = "done"
       /\ printed = 1
       /\ \A w \in Started : pc[w] = "terminated")

\* ---- C3 -----------------------------------------------------------------
\* C3: every enqueued task is dequeued exactly once: never returned by two
\* queue.get() calls, never held by two workers, never waiting in the queue
\* after it was returned or twice, returned by the time the queue is
\* drained; and outside main's enqueue loop the queue only shrinks.
C3_Inv ==
    /\ \A p \in Pages : deq[p] <= 1
    /\ \A i \in 1..Len(queue) : deq[queue[i]] = 0
    /\ \A i, j \in 1..Len(queue) : i # j => queue[i] # queue[j]
    /\ \A v, w \in Workers :
          (v # w /\ InFetchPage(v) /\ InFetchPage(w)) => url[v] # url[w]
    /\ PassedDrain => \A p \in Configured : deq[p] = 1

C3_DequeuedExactlyOnce ==
    /\ []C3_Inv
    /\ [][mainpc # "enqueue" =>
            \E n \in 0..Len(queue) : queue' = SubSeq(queue, n + 1, Len(queue))]_vars

C3_Witness ==
    /\ mainpc = "done"
    /\ numPages >= 1
    /\ threads > numPages
    /\ \A p \in Configured : deq[p] = 1

\* ---- C4 -----------------------------------------------------------------
\* C4: once main is past queue.join() every configured page was marked done
\* and no worker is inside fetch_page; once completion is reported every
\* started worker has terminated.
C4_DrainMeansAllDone ==
    /\ PassedDrain =>
          /\ \A p \in Configured : marked[p] = 1 /\ result[p] # "pending"
          /\ \A w \in Started : ~InFetchPage(w) /\ pc[w] # "task_done"
    /\ mainpc = "done" => \A w \in Started : pc[w] = "terminated"

C4_Witness ==
    /\ mainpc = "done"
    /\ numPages = 2
    /\ threads = 2
    /\ \E p \in Configured : result[p] = "ok"

\* ---- C5 -----------------------------------------------------------------
\* C5: a page answered with a non-200 status contributes nothing: the step
\* that handles the answer leaves seen_quotes and the Sink unchanged, the
\* page never has a row in the Sink, its task is marked done, and the other
\* pages are still dequeued and marked done.
C5_Inv ==
    \A p \in Configured :
        response[p][1] \notin {0, 200} =>
            /\ RowsOfPage(p) = {}
            /\ result[p] \in {"non200", "transport"}
            /\ marked[p] <= 1
            /\ PassedDrain => \A q \in Configured : deq[q] = 1 /\ marked[q] = 1

C5_Non200ContributesNothing ==
    /\ []C5_Inv
    /\ [][\A w \in Workers :
             (pc[w] = "fetch" /\ response'[url[w]][1] \notin {0, 200}) =>
                 /\ seen_quotes' = seen_quotes
                 /\ sink' = sink
                 /\ pc'[w] = "task_done"]_vars

C5_Witness ==
    /\ mainpc = "done"
    /\ numPages = 2
    /\ response[1][1] = 404
    /\ result[2] = "ok"
    /\ RowsOfPage(2) # {}

\* ---- C6 -----------------------------------------------------------------
\* C6: at completion every key that occurs on a page processed without
\* failure has a row in the Sink.
C6_FailureIsolation ==
    mainpc = "done" =>
        \A p \in Configured : result[p] = "ok" => PageKeys(p) \subseteq RowKeys

\* ---- C7 -----------------------------------------------------------------
\* C7: whenever no worker is inside a page's dedup/write processing, every
\* key in seen_quotes has a row in the Sink.
C7_SeenImpliesRow ==
    (\A w \in Workers : ~InDedupWrite(w)) => seen_quotes \subseteq RowKeys

\* ---- C8 -----------------------------------------------------------------
\* The run in which one worker takes the pages in queue order, page after
\* page, with the responses of this run and every write succeeding; it is
\* one of the interleavings (the other workers find the queue empty).
RECURSIVE ScanPage(_, _, _, _)
ScanPage(b, i, seen, acc) ==
    IF i > Len(b) THEN [seen |-> seen, written |-> acc]
    ELSE IF b[i] = Gap THEN [seen |-> seen, written |-> {}]
    ELSE IF Strip(b[i]) \in seen THEN ScanPage(b, i + 1, seen, acc)
    ELSE ScanPage(b, i + 1, seen \cup {Strip(b[i])}, acc \cup {Strip(b[i])})

RECURSIVE SequentialRun(_, _, _)
SequentialRun(p, seen, written) ==
    IF p > numPages THEN [seen |-> seen, written |-> written]
    ELSE IF response[p][1] = 200
    THEN LET r == ScanPage(response[p][2], 1, seen, {})
         IN SequentialRun(p + 1, r.seen, written \cup r.written)
    ELSE SequentialRun(p + 1, seen, written)

\* C8: for fixed responses, every complete run without a write error ends
\* with the seen_quotes and the set of Sink keys of every other such run,
\* hence of the sequential run.
C8_OrderIndependent ==
    (mainpc = "done" /\ \A p \in Configured : result[p] # "write_err") =>
        /\ seen_quotes = SequentialRun(1, {}, {}).seen
        /\ RowKeys = SequentialRun(1, {}, {}).written

\* ---- C9 -----------------------------------------------------------------
TotalRecords == RecordsUpTo(numPages)

DistinctKeys == UNION {PageKeys(p) : p \in Configured}

\* C9: when every page was fetched, extracted and written successfully, the
\* Sink holds as many data rows as there are distinct stripped texts, so at
\* most as many as Records, and as many exactly when no key repeats.
C9_RowCountIsDistinctKeys ==
    (mainpc = "done" /\ AllOk) =>
        /\ Len(DataRows) = Cardinality(DistinctKeys)
        /\ Len(DataRows) <= TotalRecords
        /\ (Len(DataRows) = TotalRecords) <=> (Cardinality(DistinctKeys) = TotalRecords)

\* ---- C10 ----------------------------------------------------------------
\* C10: with zero pages no worker ever reaches queue.get(), the run
\* completes with every worker terminated, and at completion the Sink is
\* exactly the header row.
C10_Inv ==
    numPages = 0 =>
        /\ \A w \in Workers : pc[w] \in {"unstarted", "loop", "terminated"}
        /\ mainpc \notin {"header"} => sink = <<Header>>
        /\ mainpc = "done" => \A w \in Started : pc[w] = "terminated"

C10_ZeroPagesCompletes ==
    /\ []C10_Inv
    /\ (numPages = 0) ~> (mainpc = "done" /\ printed = 1)

C10_Witness ==
    /\ numPages = 0
    /\ threads = 2
    /\ mainpc = "done"
    /\ sink = <<Header>>
    /\ \A w \in Started : pc[w] = "terminated"

\* ---- C11 ----------------------------------------------------------------
\* C11: no worker ever waits inside the dequeue on an empty queue.
C11_DequeueNeverBlocks ==
    \A w \in Workers : ~(pc[w] = "get" /\ queue = <<>>)

\* ---- C12 ----------------------------------------------------------------
\* C12: a worker that is at a membership check or an insertion of
\* seen_quotes, or between them and the page's append, holds the lock.
C12_DedupUnderLock ==
    \A w \in Workers : InDedupWrite(w) /\ pc[w] # "acquire" => lock = w

\* ---- C13 ----------------------------------------------------------------
InWorkerIteration(w) == InFetchPage(w) \/ pc[w] = "task_done"

\* C13: every dequeued task is marked done exactly once by the worker that
\* took it: a task is never marked more often than dequeued, a task that
\* was dequeued and is not yet marked is held by a worker that is still
\* between queue.get() and queue.task_done() (no failure ended the thread),
\* and a task whose processing ended, however, is marked by the time its
\* worker is back in the loop.
C13_Inv ==
    /\ \A p \in Pages : marked[p] <= deq[p] /\ marked[p] <= 1
    /\ \A p \in Pages :
          (deq[p] = 1 /\ marked[p] = 0) =>
              \E w \in Started : url[w] = p /\ InWorkerIteration(w)
    /\ \A w \in Workers :
          pc[w] \in {"sleep", "loop", "get", "terminated"} =>
              (url[w] # 0 => marked[url[w]] = 1 /\ result[url[w]] # "pending")
    /\ unfinished + Cardinality({p \in Pages : marked[p] = 1}) =
          Cardinality({p \in Pages : deq[p] = 1}) + Len(queue)

C13_MarkedDoneExactlyOnce ==
    /\ []C13_Inv
    /\ [][\A w \in Workers :
             (InWorkerIteration(w) /\ pc'[w] # pc[w] /\ ~InFetchPage(w)') =>
                 \/ pc'[w] = "task_done"
                 \/ (pc[w] = "task_done" /\ marked'[url[w]] = marked[url[w]] + 1)]_vars

C13_Witness ==
    /\ mainpc = "done"
    /\ numPages = 2
    /\ result[1] = "write_err"
    /\ result[2] = "extract_err"
    /\ \A p \in Configured : marked[p] = 1

\* ---- C14 ----------------------------------------------------------------
\* C14: a write failure during a page's append is not contained by
\* fetch_page: the step in which the append raises does not take the worker
\* on to queue.task_done().
C14_WriteFailurePropagates ==
    [][\A w \in Workers :
          (pc[w] = "write" /\ result'[url[w]] = "write_err") =>
              pc'[w] # "task_done"]_vars

\* C14 as amended: a write failure is caught by fetch_page's except clause:
\* the worker goes on to queue.task_done() and is never ended by it.
C14_WriteFailureContained ==
    /\ [][\A w \in Workers :
            (pc[w] = "write" /\ result'[url[w]] = "write_err") =>
                pc'[w] = "task_done"]_vars
    /\ [](\A w \in Started :
            (pc[w] = "terminated" /\ url[w] # 0 /\ result[url[w]] = "write_err") =>
                (marked[url[w]] = 1 /\ queue = <<>>))

C14_Witness ==
    \E w \in Started :
        /\ pc[w] = "sleep"
        /\ result[url[w]] = "write_err"
        /\ marked[url[w]] = 1

\* ---- C15 ----------------------------------------------------------------
IsPrefix(s, t) == Len(s) <= Len(t) /\ SubSeq(t, 1, Len(s)) = s

\* C15: the header is written once, to an emptied file, while the queue is
\* empty and no worker has started; from then on the header is the first
\* row and the file only grows.
C15_HeaderFirstAppendOnly ==
    /\ [](mainpc = "header" =>
            /\ queue = <<>> /\ unfinished = 0
            /\ \A w \in Workers : pc[w] = "unstarted")
    /\ [](mainpc # "header" => sink # <<>> /\ sink[1] = Header)
    /\ [][mainpc = "header" => sink' = <<Header>>]_vars
    /\ [][mainpc # "header" => mainpc' # "header" /\ IsPrefix(sink, sink')]_vars

C15_Witness ==
    /\ mainpc = "done"
    /\ Len(sink) >= 3
    /\ sink[1] = Header

\* ---- C16 ----------------------------------------------------------------
\* C16: at most one worker is inside the append section; a page has no
\* row before its append, its successful append adds its whole data_list
\* in one step, and no row of it is added afterwards; the rows of a page
\* stand next to each other in the Sink, in page order.
C16_Inv ==
    /\ \A v, w \in Workers : (pc[v] = "write" /\ pc[w] = "write") => v = w
    /\ \A w \in Workers : pc[w] = "write" => lock = w
    /\ \A p \in Pages : result[p] \notin {"ok", "write_err"} => RowsOfPage(p) = {}
    /\ \A i, j \in 1..Len(DataRows) :
          (i < j /\ DataRows[i][2] = DataRows[j][2]) =>
              /\ DataRows[i][3] < DataRows[j][3]
              /\ \A k \in i..j : DataRows[k][2] = DataRows[i][2]

C16_SerializedBatchedAppends ==
    /\ []C16_Inv
    /\ [][\A w \in Workers :
             (pc[w] = "write" /\ result'[url[w]] = "ok") =>
                 sink' = sink \o data_list[w]]_vars
    /\ [][\A p \in Pages :
             result[p] \in {"ok", "write_err"} =>
                 {sink'[i] : i \in {j \in 2..Len(sink') : sink'[j][2] = p}} =
                 {sink[i] : i \in {j \in 2..Len(sink) : sink[j][2] = p}}]_vars

C16_Witness ==
    /\ mainpc = "done"
    /\ AllOk
    /\ Cardinality(RowsOfPage(1)) = 2
    /\ Cardinality(RowsOfPage(2)) = 1
    /\ DataRows[1][2] = 2

\* ---- C17 ----------------------------------------------------------------
\* C17: the lock is held only by a worker inside the append section, and
\* the step that leaves the section, normally or by an exception, frees it.
C17_LockNeverLeaked ==
    /\ [](lock # 0 => pc[lock] = "write")
    /\ [][\A w \in Workers :
             (pc[w] = "write" /\ pc'[w] # "write") => lock' = 0]_vars

C17_Witness ==
    /\ \E p \in Configured : result[p] = "write_err"
    /\ \E w \in Started : pc[w] = "write" /\ lock = w

====
